---- MODULE Spec2Model ----
(***************************************************************************)
(* Model of the post ingestion pipeline of package data (posts.go):        *)
(* loadPosts walks the posts directory, loads every discovered slug with   *)
(* loadPost, drops drafts, checks the slugs for duplicates with            *)
(* checkPostsDup and orders the result with sortPosts.                     *)
(*                                                                         *)
(* The file system is read-only during one pass.  The content of a post's  *)
(* files is chosen the first time the pass reads them and is remembered in *)
(* `files`, so a slug that is discovered twice is loaded from the same     *)
(* files both times.                                                       *)
(*                                                                         *)
(* Fields of Post that no step of the pipeline reads back (Summary,        *)
(* Permalink, Keywords, Template, Author, License, the search copies) are  *)
(* left out of the record.                                                 *)
(***************************************************************************)
EXTENDS Integers, Sequences, FiniteSets, TLC

VARIABLES
    pc,       \* position of loadPosts: "walk", "load", "check", "sort", "done", "failed"
    slugs,    \* the slugs collected by the walk, in discovery order
    files,    \* the files read so far: slug -> file content
    idx,      \* number of slugs the load loop has gone through
    posts,    \* the slice of loaded, non-draft posts
    ret,      \* first return value of loadPosts (Nil until it returns a slice)
    err,      \* second return value of loadPosts
    calls,    \* history: the calls loadPosts has made, in order
    presort   \* history: `posts` as handed to sortPosts

vars == <<pc, slugs, files, idx, posts, ret, err, calls, presort>>

----------------------------------------------------------------------------
(* Bounds *)

MaxSlugs == 3        \* longest discovery sequence of the validation model
MaxSortSlugs == 5    \* longest discovery sequence of the sorting model

\* the directory names of the two models; names are interchangeable, so the
\* walk meets them in this order
SlugNames == <<"a", "b">>
SortSlugNames == <<"a", "b", "c", "d", "e">>

----------------------------------------------------------------------------
(* Constants of the program *)

orderTop == "top"
orderLast == "last"
orderDefault == "default"

Nil == <<"nil">>

\* a nil slice of posts, and a slice holding the posts s
NilPosts == [nil |-> TRUE, elems |-> <<>>]

Slice(s) == [nil |-> FALSE, elems |-> s]

----------------------------------------------------------------------------
(* time.Parse(vars.DateFormat, s) with DateFormat = time.RFC3339: the      *)
(* texts below stand for the metadata values; a text that is not RFC3339   *)
(* (the empty text of a missing key included) does not parse.  The parsed  *)
(* time is kept as its Unix day number.                                    *)

ParseTime(s) ==
    CASE s = "2023-01-01T00:00:00Z" -> [ok |-> TRUE, t |-> 19358]
      [] s = "2023-06-01T00:00:00Z" -> [ok |-> TRUE, t |-> 19509]
      [] s = "2024-02-29T00:00:00Z" -> [ok |-> TRUE, t |-> 19782]
      [] OTHER -> [ok |-> FALSE, t |-> 0]

----------------------------------------------------------------------------
(* The files of one slug: the metadata file (whether it is valid YAML, and *)
(* its keys) and what ioutil.ReadFile gives for the content file.          *)

ContentReads == {"<unreadable>", "", "body"}

MetaFiles ==
    [yaml : {TRUE}, draft : BOOLEAN, content : ContentReads,
     created : {"2023-01-01T00:00:00Z", "2023/01/01"},
     modified : {"2023-06-01T00:00:00Z", ""},
     title : {"", "Hello"}, tags : {"", "go,web"},
     order : {"", orderTop, orderLast, orderDefault, "middle"}]

BadYaml ==
    [yaml |-> FALSE, draft |-> FALSE, content |-> "body",
     created |-> "", modified |-> "", title |-> "", tags |-> "", order |-> ""]

AllFiles == MetaFiles \cup {BadYaml}

\* well-formed, published posts only: what reaches sortPosts
ValidFiles ==
    [yaml : {TRUE}, draft : {FALSE}, content : {"body"},
     created : {"2023-01-01T00:00:00Z", "2023-06-01T00:00:00Z",
                "2024-02-29T00:00:00Z"},
     modified : {"2023-06-01T00:00:00Z"},
     title : {"Hello"}, tags : {"go,web"},
     order : {orderTop, orderLast, orderDefault}]

PostMetaPath(slug) == <<slug, "meta.yaml">>

----------------------------------------------------------------------------
(* Errors *)

NoErr == [kind |-> "none", File |-> Nil, Field |-> "", Message |-> ""]

FieldError(file, message, field) ==
    [kind |-> "field", File |-> file, Field |-> field, Message |-> message]

YamlError == [kind |-> "yaml", File |-> Nil, Field |-> "", Message |-> "yaml"]

WalkError == [kind |-> "walk", File |-> Nil, Field |-> "", Message |-> "walk"]

DupError(slug) == [kind |-> "dup", File |-> Nil, Field |-> "", Message |-> slug]

----------------------------------------------------------------------------
(* loadPost *)

\* &Post{} filled by helper.LoadYAMLFile: Slug, Created, Modified and Content
\* are not YAML keys and keep their zero values
parsedPost(f) ==
    [Slug |-> "", Title |-> f.title, Created |-> 0, Modified |-> 0,
     Content |-> "", TagsString |-> f.tags, Order |-> f.order, Draft |-> f.draft]

\* variant: the empty content file is not looked for
contentErrorNoEmpty(slug, f) ==
    IF f.content = "<unreadable>"
    THEN FieldError(PostMetaPath(slug), "read", "path")
    ELSE NoErr

\* the content file: ioutil.ReadFile fails, or gives no bytes
contentError(slug, f) ==
    IF f.content = "<unreadable>"
    THEN FieldError(PostMetaPath(slug), "read", "path")
    ELSE IF Len(f.content) = 0
         THEN FieldError(PostMetaPath(slug), "empty", "content")
         ELSE NoErr

\* variant: any order value is taken
validOrderAny(order) == TRUE

\* the order value is one the program knows
validOrder(order) ==
    ~ (order # orderDefault /\ order # orderLast /\ order # orderTop)

\* an empty order becomes the default one
normalizeOrder(order) == IF Len(order) = 0 THEN orderDefault ELSE order

\* variant: the title and tags are checked before the timestamps
fieldChecksTitleFirst(f) ==
    << <<"title", "empty", Len(f.title) = 0>>,
       <<"tags", "empty", Len(f.tags) = 0>>,
       <<"created", "parse", ~ ParseTime(f.created).ok>>,
       <<"modified", "parse", ~ ParseTime(f.modified).ok>>,
       <<"order", "invalid", ~ validOrder(normalizeOrder(f.order))>> >>

\* the checks on the metadata keys, in the order loadPost makes them:
\* <<field, message, the check fails>>
fieldChecks(f) ==
    << <<"created", "parse", ~ ParseTime(f.created).ok>>,
       <<"modified", "parse", ~ ParseTime(f.modified).ok>>,
       <<"title", "empty", Len(f.title) = 0>>,
       <<"tags", "empty", Len(f.tags) = 0>>,
       <<"order", "invalid", ~ validOrder(normalizeOrder(f.order))>> >>

\* loadPost returns at the first check that fails
metaError(slug, f) ==
    LET checks == fieldChecks(f)
        failing == {k \in 1..Len(checks) : checks[k][3]}
    IN  IF failing = {} THEN NoErr
        ELSE LET k == CHOOSE m \in failing : \A n \in failing : m <= n
             IN  FieldError(PostMetaPath(slug), checks[k][2], checks[k][1])

\* variant: the draft flag is looked at after the content file is loaded
draftReturnsAfterContent(f) == f.draft /\ f.content \notin {"<unreadable>", ""}

\* a draft is returned as parsed, before anything else is looked at
draftReturns(f) == f.draft

loadPost(slug, f) ==
    IF ~ f.yaml THEN [post |-> Nil, err |-> YamlError]
    ELSE IF draftReturns(f) THEN [post |-> parsedPost(f), err |-> NoErr]
    ELSE IF contentError(slug, f) # NoErr
         THEN [post |-> Nil, err |-> contentError(slug, f)]
    ELSE IF metaError(slug, f) # NoErr
         THEN [post |-> Nil, err |-> metaError(slug, f)]
    ELSE [post |-> [Slug |-> slug, Title |-> f.title,
                    Created |-> ParseTime(f.created).t,
                    Modified |-> ParseTime(f.modified).t,
                    Content |-> f.content, TagsString |-> f.tags,
                    Order |-> normalizeOrder(f.order), Draft |-> FALSE],
          err |-> NoErr]

----------------------------------------------------------------------------
(* checkPostsDup *)

count(ps, slug) == Cardinality({k \in 1..Len(ps) : ps[k].Slug = slug})

\* variant: a slug is reported from its third occurrence on
checkPostsDupThird(ps) ==
    LET dups == {k \in 1..Len(ps) : count(ps, ps[k].Slug) > 2}
    IN  IF dups = {} THEN NoErr
        ELSE DupError(ps[CHOOSE m \in dups : \A n \in dups : m <= n].Slug)

checkPostsDup(ps) ==
    LET dups == {k \in 1..Len(ps) : count(ps, ps[k].Slug) > 1}
    IN  IF dups = {} THEN NoErr
        ELSE DupError(ps[CHOOSE m \in dups : \A n \in dups : m <= n].Slug)

----------------------------------------------------------------------------
(* sortPosts *)

\* variant: the second case is missing
lessNoSecondCase(pi, pj) ==
    CASE pi.Order = orderTop \/ pj.Order = orderLast -> TRUE
      [] OTHER -> pi.Created > pj.Created

\* variant: equal creation times count as less
lessOrEqual(pi, pj) ==
    CASE pi.Order = orderTop \/ pj.Order = orderLast -> TRUE
      [] pi.Order = orderLast \/ pj.Order = orderTop -> FALSE
      [] OTHER -> pi.Created >= pj.Created

\* variant: the creation times are not compared
lessNoTime(pi, pj) ==
    CASE pi.Order = orderTop \/ pj.Order = orderLast -> TRUE
      [] pi.Order = orderLast \/ pj.Order = orderTop -> FALSE
      [] OTHER -> FALSE

\* the less function handed to sort.SliceStable, on the two posts compared
less(pi, pj) ==
    CASE pi.Order = orderTop \/ pj.Order = orderLast -> TRUE
      [] pi.Order = orderLast \/ pj.Order = orderTop -> FALSE
      [] OTHER -> pi.Created > pj.Created

Swap(s, i, j) == [s EXCEPT ![i] = s[j], ![j] = s[i]]

\* inner loop of insertionSort: for j := i; j > a && less(j, j-1); j--
RECURSIVE sink(_, _)
sink(s, j) ==
    IF j > 1 /\ less(s[j], s[j - 1]) THEN sink(Swap(s, j, j - 1), j - 1) ELSE s

\* outer loop of insertionSort: for i := a + 1; i < b; i++
RECURSIVE insertionSort(_, _)
insertionSort(s, i) ==
    IF i > Len(s) THEN s ELSE insertionSort(sink(s, i), i + 1)

\* sort.SliceStable sorts a slice of at most 20 elements (its block size) by
\* one insertion sort over the whole slice; the slices here are shorter
sortPosts(ps) == insertionSort(ps, 2)

----------------------------------------------------------------------------
(* loadPosts *)

Init ==
    /\ pc = "walk"
    /\ slugs = <<>>
    /\ files = <<>>
    /\ idx = 0
    /\ posts = <<>>
    /\ ret = NilPosts
    /\ err = NoErr
    /\ calls = <<>>
    /\ presort = <<>>

\* the walk visits a directory that has both files: one whose slug it has
\* collected before, or the next new one
WalkStep(names, max) ==
    /\ pc = "walk"
    /\ Len(slugs) < max
    /\ LET seen == Cardinality({slugs[k] : k \in 1..Len(slugs)}) IN
       \E n \in 1..Len(names) :
          /\ n <= seen + 1
          /\ slugs' = Append(slugs, names[n])
    /\ UNCHANGED <<pc, files, idx, posts, ret, err, calls, presort>>

\* filepath.Walk returns an error
WalkFail ==
    /\ pc = "walk"
    /\ pc' = "failed"
    /\ ret' = NilPosts
    /\ err' = WalkError
    /\ UNCHANGED <<slugs, files, idx, posts, calls, presort>>

\* filepath.Walk returns nil
WalkDone ==
    /\ pc = "walk"
    /\ pc' = IF Len(slugs) = 0 THEN "check" ELSE "load"
    /\ UNCHANGED <<slugs, files, idx, posts, ret, err, calls, presort>>

\* variant: a post that fails to load is skipped and the loop goes on
LoadStepSkip(universe) ==
    /\ pc = "load"
    /\ LET slug == slugs[idx + 1] IN
       \E f \in (IF slug \in DOMAIN files THEN {files[slug]} ELSE universe) :
          LET r == loadPost(slug, f) IN
          /\ files' = [s \in DOMAIN files \cup {slug} |->
                          IF s = slug THEN f ELSE files[s]]
          /\ calls' = Append(calls, <<"loadPost", slug>>)
          /\ idx' = idx + 1
          /\ pc' = IF idx + 1 = Len(slugs) THEN "check" ELSE "load"
          /\ posts' = IF r.err = NoErr /\ ~ r.post.Draft
                      THEN Append(posts, r.post) ELSE posts
          /\ UNCHANGED <<ret, err>>
    /\ UNCHANGED <<slugs, presort>>

\* one iteration of the load loop
LoadStep(universe) ==
    /\ pc = "load"
    /\ LET slug == slugs[idx + 1] IN
       \E f \in (IF slug \in DOMAIN files THEN {files[slug]} ELSE universe) :
          LET r == loadPost(slug, f) IN
          /\ files' = [s \in DOMAIN files \cup {slug} |->
                          IF s = slug THEN f ELSE files[s]]
          /\ calls' = Append(calls, <<"loadPost", slug>>)
          /\ idx' = idx + 1
          /\ IF r.err # NoErr
             THEN /\ pc' = "failed"
                  /\ ret' = NilPosts
                  /\ err' = r.err
                  /\ posts' = posts
             ELSE /\ pc' = IF idx + 1 = Len(slugs) THEN "check" ELSE "load"
                  /\ posts' = IF ~ r.post.Draft THEN Append(posts, r.post) ELSE posts
                  /\ UNCHANGED <<ret, err>>
    /\ UNCHANGED <<slugs, presort>>

CheckDup ==
    /\ pc = "check"
    /\ calls' = Append(calls, <<"checkPostsDup">>)
    /\ IF checkPostsDup(posts) # NoErr
       THEN /\ pc' = "failed"
            /\ ret' = NilPosts
            /\ err' = checkPostsDup(posts)
       ELSE /\ pc' = "sort"
            /\ UNCHANGED <<ret, err>>
    /\ UNCHANGED <<slugs, files, idx, posts, presort>>

SortReturn ==
    /\ pc = "sort"
    /\ calls' = Append(calls, <<"sortPosts">>)
    /\ presort' = posts
    /\ posts' = sortPosts(posts)
    /\ ret' = Slice(sortPosts(posts))
    /\ pc' = "done"
    /\ UNCHANGED <<slugs, files, idx, err>>

Next ==
    \/ WalkStep(SlugNames, MaxSlugs)
    \/ WalkFail
    \/ WalkDone
    \/ LoadStep(AllFiles)
    \/ CheckDup
    \/ SortReturn

Spec == Init /\ [][Next]_vars

NextSort ==
    \/ WalkStep(SortSlugNames, MaxSortSlugs)
    \/ WalkFail
    \/ WalkDone
    \/ LoadStep(ValidFiles)
    \/ CheckDup
    \/ SortReturn

SpecSort == Init /\ [][NextSort]_vars

----------------------------------------------------------------------------
(* Vocabulary of the properties *)

HasCall(name) == \E k \in 1..Len(calls) : calls[k][1] = name

\* loadPosts has returned the error of a loadPost call (that of slugs[idx])
LoadFailed == pc = "failed" /\ err.kind \in {"field", "yaml"}

\* the files of the k-th discovered slug, once the loop has read them
FileOf(k) == files[slugs[k]]

Distinct(ps) ==
    \A i, j \in 1..Len(ps) : i # j => ps[i].Slug # ps[j].Slug

\* position of the post with this slug in a sequence of distinct slugs
Pos(ps, slug) == CHOOSE k \in 1..Len(ps) : ps[k].Slug = slug

KnownOrders == {orderTop, orderLast, orderDefault}

----------------------------------------------------------------------------
(* Duplicate slugs *)

\* C1: loadPosts returns a collection only when the slugs of the loaded
\* non-draft posts are pairwise distinct; once checkPostsDup has run on posts
\* in which a slug occurs twice, loadPosts has failed with an error naming a
\* slug that occurs at least twice, has returned nil, and sortPosts has not
\* been called.
C1_DistinctOrFail ==
    /\ (pc = "done" => ~ ret.nil /\ Distinct(ret.elems) /\ Distinct(presort))
    /\ (~ ret.nil => pc = "done")
    /\ (HasCall("checkPostsDup") /\ ~ Distinct(posts) =>
            /\ pc = "failed"
            /\ ret.nil
            /\ err.kind = "dup"
            /\ count(posts, err.Message) >= 2
            /\ ~ HasCall("sortPosts"))

C1_Witness ==
    /\ pc = "failed"
    /\ err.kind = "dup"
    /\ Len(posts) = 3
    /\ posts[1].Slug # err.Message

----------------------------------------------------------------------------
(* Drafts *)

\* C2: a post whose metadata parses with draft = true never makes loadPost
\* fail, whatever its other keys and its content file are, and never is in
\* the slice of loaded posts; when loadPosts returns a collection it holds
\* exactly the discovered slugs that are not drafts.
C2_DraftNeverRejected ==
    /\ \A k \in 1..idx :
          FileOf(k).yaml /\ FileOf(k).draft => ~ (k = idx /\ LoadFailed)
    /\ \A k \in 1..Len(posts) : ~ files[posts[k].Slug].draft /\ ~ posts[k].Draft
    /\ (pc = "done" =>
          {ret.elems[k].Slug : k \in 1..Len(ret.elems)} =
          {slugs[k] : k \in {n \in 1..Len(slugs) : ~ FileOf(n).draft}})

C2_Witness ==
    /\ pc = "done"
    /\ Len(ret.elems) = 1
    /\ \E k \in 1..Len(slugs) :
          /\ FileOf(k).draft
          /\ ~ ParseTime(FileOf(k).created).ok
          /\ ~ ParseTime(FileOf(k).modified).ok
          /\ FileOf(k).content = "<unreadable>"
          /\ FileOf(k).title = ""
          /\ FileOf(k).tags = ""
          /\ FileOf(k).order = "middle"

----------------------------------------------------------------------------
(* Fail-fast *)

C3_State ==
    /\ (LoadFailed =>
          /\ ret.nil
          /\ idx >= 1
          /\ err = loadPost(slugs[idx], FileOf(idx)).err
          /\ calls = [k \in 1..idx |-> <<"loadPost", slugs[k]>>])
    /\ (HasCall("checkPostsDup") =>
          /\ idx = Len(slugs)
          /\ \A k \in 1..Len(slugs) : loadPost(slugs[k], FileOf(k)).err = NoErr
          /\ \A k \in 1..Len(slugs) : calls[k] = <<"loadPost", slugs[k]>>)
    /\ (HasCall("sortPosts") => HasCall("checkPostsDup"))

\* C3: when a loadPost call fails, loadPosts returns that error and nil, has
\* loaded the slugs up to the failing one only and has called neither
\* checkPostsDup nor sortPosts, and nothing happens afterwards; checkPostsDup
\* and sortPosts are called only after every slug has been loaded without
\* error.
C3_FailFast == [] C3_State /\ [][pc # "failed"]_vars

C3_Witness ==
    /\ LoadFailed
    /\ err.kind = "field"
    /\ idx = 2
    /\ Len(slugs) = 3
    /\ Len(posts) = 1

----------------------------------------------------------------------------
(* The content file *)

\* the load of the k-th slug has failed with this field error
FailedWith(k, field) ==
    /\ k = idx
    /\ LoadFailed
    /\ err.kind = "field"
    /\ err.Field = field
    /\ err.File = PostMetaPath(slugs[k])

Published(k) == FileOf(k).yaml /\ ~ FileOf(k).draft

\* C8 as stated: an unreadable and an empty content file of a non-draft post
\* both give a field error of field "content" with the metadata-file path.
C8_ContentFieldAlways ==
    \A k \in 1..idx :
        Published(k) /\ FileOf(k).content \in {"<unreadable>", ""} =>
            FailedWith(k, "content")

\* C8 amended: an unreadable content file of a non-draft post gives a field
\* error of field "path", an empty one a field error of field "content"; both
\* carry the metadata-file path.
C8_ContentPathOrContent ==
    \A k \in 1..idx :
        /\ (Published(k) /\ FileOf(k).content = "<unreadable>" =>
                FailedWith(k, "path"))
        /\ (Published(k) /\ FileOf(k).content = "" =>
                FailedWith(k, "content"))

C8_Witness ==
    /\ idx = 2
    /\ Published(2)
    /\ FileOf(2).content = ""
    /\ ParseTime(FileOf(2).created).ok
    /\ FailedWith(2, "content")

----------------------------------------------------------------------------
(* The metadata checks *)

\* the first key that is wrong, in the order created, modified, title, tags,
\* order; "" when none is
FirstDefect(f) ==
    IF ~ ParseTime(f.created).ok THEN "created"
    ELSE IF ~ ParseTime(f.modified).ok THEN "modified"
    ELSE IF f.title = "" THEN "title"
    ELSE IF f.tags = "" THEN "tags"
    ELSE IF f.order \notin KnownOrders \cup {""} THEN "order"
    ELSE ""

\* C9: a non-draft post with readable, non-empty content fails to load with
\* the field error of its first defect in the order created, modified, title,
\* tags, order, and with no field error when it has no defect.
C9_FirstFailingCheck ==
    \A k \in 1..idx :
        Published(k) /\ FileOf(k).content = "body" =>
            IF FirstDefect(FileOf(k)) = ""
            THEN ~ (k = idx /\ LoadFailed)
            ELSE FailedWith(k, FirstDefect(FileOf(k)))

C9_Witness ==
    /\ idx = 2
    /\ Published(2)
    /\ FileOf(2).content = "body"
    /\ ParseTime(FileOf(2).created).ok
    /\ ~ ParseTime(FileOf(2).modified).ok
    /\ FileOf(2).title = ""
    /\ FileOf(2).tags = ""
    /\ FileOf(2).order = "middle"
    /\ FailedWith(2, "modified")

----------------------------------------------------------------------------
(* The order value *)

\* C10: every loaded post has an order in {top, last, default}: the default
\* one when the metadata gives none, the one of the metadata otherwise; a
\* post whose only defect is another order value fails with field "order".
C10_OrderEnum ==
    /\ \A k \in 1..Len(posts) :
          /\ posts[k].Order \in KnownOrders
          /\ posts[k].Order =
                IF files[posts[k].Slug].order = "" THEN orderDefault
                ELSE files[posts[k].Slug].order
    /\ (pc = "done" => \A k \in 1..Len(ret.elems) : ret.elems[k].Order \in KnownOrders)
    /\ \A k \in 1..idx :
          /\ Published(k)
          /\ FileOf(k).content = "body"
          /\ FirstDefect(FileOf(k)) \in {"", "order"}
          /\ FileOf(k).order \notin KnownOrders \cup {""}
          => FailedWith(k, "order")

C10_Witness ==
    /\ pc = "done"
    /\ Len(ret.elems) = 2
    /\ \E k \in 1..2 : files[ret.elems[k].Slug].order = "" /\ ret.elems[k].Order = orderDefault
    /\ \E k \in 1..2 : files[ret.elems[k].Slug].order = orderTop

----------------------------------------------------------------------------
(* The sort *)

\* C4: in the collection sortPosts produces, every top post precedes every
\* post that is not top and every last post follows every post that is not
\* last, whatever the creation times are.
C4_PinClasses ==
    pc = "done" =>
        \A i, j \in 1..Len(ret.elems) :
            i < j =>
                /\ (ret.elems[j].Order = orderTop => ret.elems[i].Order = orderTop)
                /\ (ret.elems[i].Order = orderLast => ret.elems[j].Order = orderLast)

C4_Witness ==
    /\ pc = "done"
    /\ Len(presort) = 4
    /\ presort[1].Order = orderLast
    /\ presort[2].Order = orderDefault
    /\ presort[3].Order = orderTop
    /\ presort[4].Order = orderDefault
    /\ presort[2].Created > presort[3].Created
    /\ ret.elems[1].Slug = presort[3].Slug
    /\ ret.elems[4].Slug = presort[1].Slug

\* C5: two top posts, and two last posts, come out of sortPosts in the
\* relative order they went in.
C5_SameClassKeepsOrder ==
    pc = "done" =>
        \A i, j \in 1..Len(presort) :
            /\ i < j
            /\ presort[i].Order = presort[j].Order
            /\ presort[i].Order \in {orderTop, orderLast}
            => Pos(ret.elems, presort[i].Slug) < Pos(ret.elems, presort[j].Slug)

\* C6: the default posts come out of sortPosts in descending order of
\* creation time, and two default posts created at the same time come out in
\* the relative order they went in, also among top and last posts.
C6_DefaultsDescendingStable ==
    pc = "done" =>
        /\ \A i, j \in 1..Len(ret.elems) :
              /\ i < j
              /\ ret.elems[i].Order = orderDefault
              /\ ret.elems[j].Order = orderDefault
              => ret.elems[i].Created >= ret.elems[j].Created
        /\ \A i, j \in 1..Len(presort) :
              /\ i < j
              /\ presort[i].Order = orderDefault
              /\ presort[j].Order = orderDefault
              /\ presort[i].Created = presort[j].Created
              => Pos(ret.elems, presort[i].Slug) < Pos(ret.elems, presort[j].Slug)

C6_Witness ==
    /\ pc = "done"
    /\ Len(presort) = 4
    /\ presort[1].Order = orderDefault
    /\ presort[2].Order = orderLast
    /\ presort[3].Order = orderDefault
    /\ presort[4].Order = orderDefault
    /\ presort[1].Created = presort[3].Created
    /\ presort[4].Created > presort[1].Created
    /\ ret.elems = <<presort[4], presort[1], presort[3], presort[2]>>

----------------------------------------------------------------------------
(* Discovery order *)

SeqPerms(n) ==
    {p \in [1..n -> 1..n] : \A i, j \in 1..n : i # j => p[i] # p[j]}

\* the slice the load loop builds from a discovery sequence whose slugs all
\* load without error
loadAll(seq) ==
    SelectSeq([k \in 1..Len(seq) |-> loadPost(seq[k], files[seq[k]]).post],
              LAMBDA q : ~ q.Draft)

\* what loadPosts returns for the discovered slugs walked in the order p
PublishedOrder(p) ==
    sortPosts(loadAll([k \in 1..Len(slugs) |-> slugs[p[k]]]))

\* no two posts have the same place in the intended order: at most one top,
\* at most one last, and default posts of different creation times
DistinctKeys(ps) ==
    \A i, j \in 1..Len(ps) :
        i # j =>
            ~ /\ ps[i].Order = ps[j].Order
              /\ \/ ps[i].Order \in {orderTop, orderLast}
                 \/ ps[i].Created = ps[j].Created

\* C7 as stated: every permutation of the discovered slugs gives the
\* collection that loadPosts returned.
C7_AnyDiscoveryOrder ==
    pc = "done" =>
        \A p \in SeqPerms(Len(slugs)) : PublishedOrder(p) = ret.elems

\* C7 amended: when no two posts share a pin class top or last, and no two
\* default posts share a creation time, every permutation of the discovered
\* slugs gives the collection that loadPosts returned.
C7_DistinctKeysAnyOrder ==
    pc = "done" /\ DistinctKeys(ret.elems) =>
        \A p \in SeqPerms(Len(slugs)) : PublishedOrder(p) = ret.elems

C7_Witness ==
    /\ pc = "done"
    /\ Len(ret.elems) = 4
    /\ DistinctKeys(ret.elems)
    /\ ret.elems # presort
    /\ \E p \in SeqPerms(4) :
          /\ loadAll([k \in 1..4 |-> slugs[p[k]]]) \notin {presort, ret.elems}
          /\ PublishedOrder(p) = ret.elems

====
